---------------------------- MODULE Spec2Model ----------------------------
(***************************************************************************)
(* Request execution and adaptive retry of overpass-ts (src/overpass.ts):  *)
(* overpass(), apiStatus(), utils.oneLessRetry(), utils.sleep() and        *)
(* utils.parseApiStatus().                                                 *)
(*                                                                         *)
(* One top-level call of overpass() is followed through its promise chain. *)
(* The remote service and the timer are the environment: they choose the   *)
(* HTTP status of every POST, the content type and the body of every       *)
(* status report, and the moment a timer fires (never before its delay).   *)
(***************************************************************************)
EXTENDS Integers, Sequences, FiniteSets, TLC

VARIABLES
    pc,            \* position of the call: idle, awaitPost, awaitStatus, sleeping, done
    query,         \* the query string of the call
    overpassOpts,  \* the options object the caller supplied (a partial record)
    opts,          \* the current attempt's opts (line 23)
    depth,         \* number of nested re-invocations of overpass() made so far
    log,           \* observable effects in order: POST, RESP, GET, SLEEP, WAKE
    console,       \* lines written by utils.consoleMsg
    outcome,       \* how the returned promise settled ("none" while pending)
    now,           \* the clock, in milliseconds
    wakeAt,        \* the time the pending setTimeout is due
    responseType,  \* content-type header of the last status response, split on ";"
    statusHtml,    \* body of the last status response, split on "\n"
    \* the parts of the program taken on their own (BackoffSpec, ParseSpec,
    \* AdapterSpec):
    snapshot,      \* the apiStatus value handed to the callback of lines 60-83
    decision,      \* what that callback decided on it
    parses,        \* the calls of parseApiStatus made so far: text and result
    adapter,       \* one call of overpassJson/Xml/Csv/Stream: the settled
                   \* promise of overpass() it got and what it made of it
    \* several calls of overpass() in one program (ConcSpec, PairSpec):
    defaults,      \* the module's defaultOpts object
    options,       \* the options object each caller passed
    calls          \* the state of each call's promise chain

execVars == <<pc, query, overpassOpts, opts, depth, log, console, outcome, now,
              wakeAt, responseType, statusHtml>>
unitVars == <<snapshot, decision, parses, adapter>>
concVars == <<defaults, options, calls>>
vars == <<execVars, unitVars, concVars>>

-----------------------------------------------------------------------------
(* Bounds of the model *)

\* largest retry budget a caller passes
MaxRetries == 2
\* longest status report, in lines, that is enumerated exhaustively
MaxLines == 2
\* granularity of the clock, in milliseconds
TickMs == 500
\* longest slot list of a snapshot handed to the backoff decision
MaxSlots == 2
\* number of consecutive calls of parseApiStatus that are followed
MaxParses == 3
\* number of element and remark lines in the XML bodies that are enumerated
MaxXmlLines == 2

-----------------------------------------------------------------------------
(* JavaScript values *)

\* A JS number is <<n>>; NaN is <<>> (every comparison with NaN is false).
Num(n) == <<n>>
NaN == <<>>

\* a > b of JS, for a possibly NaN number a and an integer b
JsGreater(a, b) == Len(a) = 1 /\ a[1] > b
\* a == 0 of JS
JsIsZero(a) == Len(a) = 1 /\ a[1] = 0

\* Object.assign({}, a, b): the keys of both, b's value where b has the key
ObjectAssign(a, b) ==
    [k \in DOMAIN a \cup DOMAIN b |-> IF k \in DOMAIN b THEN b[k] ELSE a[k]]

Min(a, b) == IF a <= b THEN a ELSE b

RECURSIVE MathMin(_, _)
\* Math.min(first, ...rest)
MathMin(first, rest) ==
    IF rest = <<>> THEN first
    ELSE MathMin(Min(first, Head(rest)), Tail(rest))

-----------------------------------------------------------------------------
(* Configuration *)

defaultOpts ==
    [endpoint   |-> <<"main", "/interpreter">>,
     numRetries |-> 1,
     retryPause |-> 2000,
     verbose    |-> FALSE,
     userAgent  |-> "overpass-ts"]

\* faulty variant of oneLessRetry: only the new budget is passed on
oneLessRetryOnlyBudget(o) == [numRetries |-> o.numRetries - 1]

\* faulty variant of oneLessRetry: the copy keeps the budget
oneLessRetryKeepsBudget(o) == ObjectAssign(o, [numRetries |-> o.numRetries])

\* opts with numRetries one lower, everything else copied
oneLessRetry(o) == ObjectAssign(o, [numRetries |-> o.numRetries - 1])

\* endpoint.replace("/interpreter", "/status"): the first occurrence only
RECURSIVE replaceInterpreter(_)
replaceInterpreter(endpoint) ==
    IF endpoint = <<>> THEN <<>>
    ELSE IF Head(endpoint) = "/interpreter" THEN <<"/status">> \o Tail(endpoint)
    ELSE <<Head(endpoint)>> \o replaceInterpreter(Tail(endpoint))

-----------------------------------------------------------------------------
(* Status report: utils.parseApiStatus *)

\* One line of the report: its first word (statusLine.split(" ")[0]), whether
\* it includes "available", the text after the fixed prefix of 14 characters
\* (slice(14)), the integer parseInt reads at the line's fixed offset, and
\* its tab-separated fields (statusLine.split("\t")).
Line(word, available, rest, int, fields) ==
    [word |-> word, available |-> available, rest |-> rest, int |-> int,
     fields |-> fields]

ConnectedLine == Line("Connected", FALSE, "7", NaN, <<"Connected as: 7">>)
CurrentLine   == Line("Current", FALSE, "t0", Num(1600), <<"Current time: t0">>)
RateLine(n)   == Line("Rate", FALSE, "", Num(n), <<"Rate limit: n">>)
RateNaNLine   == Line("Rate", FALSE, "", NaN, <<"Rate limit: x">>)
SlotLine(n)   == Line("Slot", TRUE, "", Num(n), <<"Slot available after: t1, in n seconds.">>)
CurrentlyLine == Line("Currently", FALSE, "", NaN, <<"Currently running queries">>)
AvailableLine == Line("2", TRUE, "", NaN, <<"2 slots available now.">>)
RunningLine   == Line("12345", FALSE, "", NaN, <<"12345", "536870912", "180", "t2">>)
BlankLine     == Line("", FALSE, "", NaN, <<"">>)

\* the snapshot parseApiStatus starts from (lines 251-254)
emptyStatus == [slotsRunning |-> <<>>, slotsAvailableAfter |-> <<>>]

\* status[key] = value
SetField(status, key, value) ==
    [k \in DOMAIN status \cup {key} |-> IF k = key THEN value ELSE status[k]]

\* status[key].append(value): arrays have no append method, so the call
\* throws a TypeError and nothing is stored
ArrayAppend(status, key, value) == [threw |-> TRUE, status |-> status]

\* the body of the forEach callback (lines 256-271) for one line
parseLine(status, statusLine) ==
    LET lineFirstWord == statusLine.word IN
    IF lineFirstWord = "Connected"
    THEN [threw |-> FALSE, status |-> SetField(status, "clientId", statusLine.rest)]
    ELSE IF lineFirstWord = "Current"
    THEN [threw |-> FALSE, status |-> SetField(status, "currentTime", statusLine.int)]
    ELSE IF lineFirstWord = "Rate"
    THEN [threw |-> FALSE, status |-> SetField(status, "rateLimit", statusLine.int)]
    ELSE IF lineFirstWord = "Slot"
    THEN ArrayAppend(status, "slotsAvailableAfter", statusLine.int)
    ELSE IF lineFirstWord # "Currently" /\ ~statusLine.available
    THEN ArrayAppend(status, "slotsRunning", statusLine.fields)
    ELSE [threw |-> FALSE, status |-> status]

RECURSIVE forEachLine(_, _)
\* statusHtml.split("\n").forEach(...): top to bottom, stopping at a throw
forEachLine(lines, status) ==
    IF lines = <<>> THEN [threw |-> FALSE, status |-> status]
    ELSE LET r == parseLine(status, Head(lines)) IN
         IF r.threw THEN r ELSE forEachLine(Tail(lines), r.status)

\* faulty variant of newStatus: one status object is kept between calls
newStatusKept(previous) == previous

\* const status = { slotsRunning: [], slotsAvailableAfter: [] } (lines
\* 251-254): each call starts from a new object, whatever the status object
\* of the previous call holds
newStatus(previous) == emptyStatus

\* utils.parseApiStatus(statusHtml): threw, or the snapshot returned
parseApiStatus(html) == forEachLine(html, emptyStatus)

-----------------------------------------------------------------------------
(* Status fetch: apiStatus *)

\* !responseType || responseType.split(";")[0] !== "text/plain", for a
\* content-type header split on ";" (<<>> when the header is absent)
typeIncorrect(rt) == rt = <<>> \/ rt[1] # "text/plain"

\* faulty variant of apiStatus: a wrong content type is let through and the
\* body is parsed all the same
apiStatusIgnoresType(rt, html) ==
    LET parsed == parseApiStatus(IF typeIncorrect(rt) THEN <<>> ELSE html) IN
    IF parsed.threw
    THEN [error |-> "TypeError", value |-> emptyStatus]
    ELSE IF "clientId" \notin DOMAIN parsed.status /\ ~typeIncorrect(rt)
    THEN [error |-> "OverpassApiStatusError", value |-> emptyStatus]
    ELSE [error |-> "none", value |-> parsed.status]

\* faulty variant of apiStatus: the snapshot is not checked for clientId
apiStatusUnchecked(rt, html) ==
    IF typeIncorrect(rt)
    THEN [error |-> "OverpassApiStatusError", value |-> emptyStatus]
    ELSE LET parsed == parseApiStatus(html) IN
         IF parsed.threw
         THEN [error |-> "TypeError", value |-> emptyStatus]
         ELSE [error |-> "none", value |-> parsed.status]

\* the promise apiStatus() returns, for a status response with content-type
\* header rt and body html
apiStatus(rt, html) ==
    IF typeIncorrect(rt)
    THEN [error |-> "OverpassApiStatusError", value |-> emptyStatus]
    ELSE LET parsed == parseApiStatus(html) IN
         IF parsed.threw
         THEN [error |-> "TypeError", value |-> emptyStatus]
         ELSE IF "clientId" \notin DOMAIN parsed.status
         THEN [error |-> "OverpassApiStatusError", value |-> emptyStatus]
         ELSE [error |-> "none", value |-> parsed.status]

-----------------------------------------------------------------------------
(* Backoff decision embedded in overpass (lines 64-74) *)

\* apiStatus.rateLimit > slotsAvailableAfter.length + slotsRunning.length
\*   || apiStatus.rateLimit == 0      (a missing rateLimit is undefined)
retryImmediately(st) ==
    /\ "rateLimit" \in DOMAIN st
    /\ \/ JsGreater(st.rateLimit,
                    Len(st.slotsAvailableAfter) + Len(st.slotsRunning))
       \/ JsIsZero(st.rateLimit)

\* faulty variant of lowestWaitTime: the extra second is left out
lowestWaitTimeNoMargin(st) == MathMin(0, st.slotsAvailableAfter)

\* Math.min(0, ...apiStatus.slotsAvailableAfter) + 1, in seconds
lowestWaitTime(st) == MathMin(0, st.slotsAvailableAfter) + 1

-----------------------------------------------------------------------------
(* Inputs *)

Queries == {"q1"}

\* HTTP statuses the service answers a POST with; resp.ok is 200..299
Statuses == {200, 400, 429, 500, 504}
RespOk(status) == status >= 200 /\ status <= 299

\* the options object a caller passes: any subset of the keys
PartialOpts(keys, n, p, v) ==
    LET full == [endpoint   |-> <<"alt", "/interpreter">>,
                 numRetries |-> n,
                 retryPause |-> p,
                 verbose    |-> v,
                 userAgent  |-> "ua2"]
    IN [k \in keys |-> full[k]]

AllKeys == {"endpoint", "numRetries", "retryPause", "verbose", "userAgent"}

CallerOpts ==
    { PartialOpts(keys, n, 500, TRUE) :
        keys \in SUBSET {"numRetries", "retryPause", "verbose"} \cup {AllKeys},
        n \in 0..MaxRetries }

\* content-type headers of a status response, split on ";"
ResponseTypes ==
    { <<>>, <<"text/plain">>, <<"text/plain", " charset=utf-8">>,
      <<"text/html">> }

LineKinds ==
    { ConnectedLine, RateLine(0), RateLine(2), SlotLine(5), CurrentlyLine,
      AvailableLine, RunningLine, BlankLine }

RECURSIVE SeqsUpTo(_, _)
\* the sequences over S of length 1..n
SeqsUpTo(S, n) ==
    IF n = 0 THEN {}
    ELSE LET shorter == SeqsUpTo(S, n - 1) IN
         { <<x>> : x \in S } \cup shorter
           \cup { Append(t, x) : t \in shorter, x \in S }

\* reports as the service writes them
FullReport(rate, running, slots) ==
    <<ConnectedLine, CurrentLine, RateLine(rate)>> \o slots
      \o <<CurrentlyLine>> \o running

ExampleReports ==
    { FullReport(2, <<RunningLine>>, <<>>),
      FullReport(1, <<RunningLine>>, <<SlotLine(5)>>),
      FullReport(0, <<>>, <<SlotLine(5)>>),
      FullReport(2, <<>>, <<>>) \o <<BlankLine>>,
      <<ConnectedLine, CurrentLine, RateLine(2), AvailableLine, CurrentlyLine>>,
      <<ConnectedLine, CurrentLine, CurrentlyLine>>,
      <<ConnectedLine, RateNaNLine>>,
      <<ConnectedLine, RateLine(1)>>,
      <<ConnectedLine, RateLine(-1)>> }

\* bodies of a status response: split("\n") never yields an empty list
Reports == SeqsUpTo(LineKinds, MaxLines) \cup ExampleReports

-----------------------------------------------------------------------------
(* The executor: overpass *)

Event(ev, status, ms, url) ==
    [ev |-> ev, opts |-> opts, q |-> query, status |-> status, ms |-> ms,
     url |-> url, at |-> now]

Msg(msg, n) == [msg |-> msg, n |-> n]

\* no call of overpass() has been made
ExecInit ==
    /\ pc = "idle"
    /\ query = "q1"
    /\ overpassOpts = <<>>
    /\ opts = defaultOpts
    /\ depth = 0
    /\ log = <<>>
    /\ console = <<>>
    /\ outcome = "none"
    /\ now = 0
    /\ wakeAt = 0
    /\ responseType = <<>>
    /\ statusHtml = <<>>

NoDecision == [made |-> FALSE, immediate |-> FALSE, wait |-> 0]
Pending == [threw |-> "pending", message |-> <<>>, value |-> "none"]
NoBody == [format |-> "none", remark |-> "absent", lines |-> <<>>]
NoAdapter == [fn |-> "none", settled |-> "none", body |-> NoBody, result |-> Pending]

\* the parts taken on their own are not exercised
UnitIdle ==
    /\ snapshot = emptyStatus
    /\ decision = NoDecision
    /\ parses = <<>>
    /\ adapter = NoAdapter

\* no other call is made
ConcIdle ==
    /\ defaults = defaultOpts
    /\ options = <<>>
    /\ calls = <<>>

Init == ExecInit /\ UnitIdle /\ ConcIdle

\* faulty variant of overlay: Object.assign(defaultOpts, overpassOpts), the
\* defaults object is the target and is written into
overlayIntoDefaults(d, o) ==
    [target |-> ObjectAssign(d, o), defaults |-> ObjectAssign(d, o)]

\* Object.assign({}, defaultOpts, overpassOpts) (line 23) when the defaults
\* object holds d: the target is a new object, the sources are only read
overlay(d, o) == [target |-> ObjectAssign(d, o), defaults |-> d]

\* overpass(q, o) up to the fetch (lines 23-41): overlay the defaults, write
\* the verbose lines, send the POST (lg is the log so far)
overpass(q, o, lg) ==
    LET opts1 == overlay(defaultOpts, o).target IN
    /\ opts' = opts1
    /\ query' = q
    /\ console' = IF opts1.verbose
                  THEN console \o <<Msg("endpoint", 0), Msg("query", 0)>>
                  ELSE console
    /\ log' = Append(lg, [ev |-> "POST", opts |-> opts1, q |-> q, status |-> 0,
                          ms |-> 0, url |-> opts1.endpoint, at |-> now])
    /\ pc' = "awaitPost"

\* the promise settles: a response is returned or an error is thrown
Settle(result) ==
    /\ outcome' = result
    /\ pc' = "done"

\* faulty variant of sleep: the timer is due at once
sleepFiresAtOnce(ms, lg) ==
    /\ log' = Append(lg, Event("SLEEP", 0, ms, <<>>))
    /\ wakeAt' = now
    /\ pc' = "sleeping"

\* utils.sleep(ms): a timer is set
sleep(ms, lg) ==
    /\ log' = Append(lg, Event("SLEEP", 0, ms, <<>>))
    /\ wakeAt' = now + ms
    /\ pc' = "sleeping"

\* a top-level call by the user
Call(q, o) ==
    /\ pc = "idle"
    /\ overpassOpts' = o
    /\ overpass(q, o, log)
    /\ UNCHANGED <<depth, outcome, now, wakeAt, responseType, statusHtml>>
    /\ UNCHANGED <<unitVars, concVars>>

\* faulty variant of respBranch: the budget is never looked at
respBranchAlwaysRetry(status, o) ==
    IF ~RespOk(status)
    THEN IF status = 400 THEN "OverpassBadRequestError"
         ELSE IF status = 429 THEN "apiStatus"
         ELSE IF status = 504 THEN "sleep"
         ELSE "OverpassError"
    ELSE "response"

\* faulty variant of respBranch: gives up only below zero (one retry too many)
respBranchOneMore(status, o) ==
    IF ~RespOk(status)
    THEN IF status = 400 THEN "OverpassBadRequestError"
         ELSE IF status = 429
         THEN IF o.numRetries < 0 THEN "OverpassRateLimitError" ELSE "apiStatus"
         ELSE IF status = 504
         THEN IF o.numRetries < 0 THEN "OverpassGatewayTimeoutError" ELSE "sleep"
         ELSE "OverpassError"
    ELSE "response"

\* faulty variant of respBranch: gives up while one retry is left
respBranchGivesUpEarly(status, o) ==
    IF ~RespOk(status)
    THEN IF status = 400 THEN "OverpassBadRequestError"
         ELSE IF status = 429
         THEN IF o.numRetries <= 1 THEN "OverpassRateLimitError" ELSE "apiStatus"
         ELSE IF status = 504
         THEN IF o.numRetries <= 1 THEN "OverpassGatewayTimeoutError" ELSE "sleep"
         ELSE "OverpassError"
    ELSE "response"

\* faulty variant of respBranch: a 504 with budget left asks for the status too
respBranchStatusOn504(status, o) ==
    IF ~RespOk(status)
    THEN IF status = 400 THEN "OverpassBadRequestError"
         ELSE IF status = 429
         THEN IF o.numRetries = 0 THEN "OverpassRateLimitError" ELSE "apiStatus"
         ELSE IF status = 504
         THEN IF o.numRetries = 0 THEN "OverpassGatewayTimeoutError" ELSE "apiStatus"
         ELSE "OverpassError"
    ELSE "response"

\* faulty variant of respBranch: every 5xx status is retried like 504
respBranchRetries5xx(status, o) ==
    IF ~RespOk(status)
    THEN IF status = 400 THEN "OverpassBadRequestError"
         ELSE IF status = 429
         THEN IF o.numRetries = 0 THEN "OverpassRateLimitError" ELSE "apiStatus"
         ELSE IF status >= 500
         THEN IF o.numRetries = 0 THEN "OverpassGatewayTimeoutError" ELSE "sleep"
         ELSE "OverpassError"
    ELSE "response"

\* what the callback of fetch(...).then does with a response of this status
\* when the attempt's opts are o (the branches of lines 43-105)
respBranch(status, o) ==
    IF ~RespOk(status)
    THEN IF status = 400 THEN "OverpassBadRequestError"
         ELSE IF status = 429
         THEN IF o.numRetries = 0 THEN "OverpassRateLimitError" ELSE "apiStatus"
         ELSE IF status = 504
         THEN IF o.numRetries = 0 THEN "OverpassGatewayTimeoutError" ELSE "sleep"
         ELSE "OverpassError"
    ELSE "response"

\* the callback of fetch(...).then (lines 41-106) for a response with this
\* status, with or without a content-length header
PostResponse(status, hasLength) ==
    /\ pc = "awaitPost"
    /\ LET lg == Append(log, Event("RESP", status, 0, <<>>))
           branch == respBranch(status, opts)
       IN IF branch = "apiStatus"
          THEN /\ log' = Append(lg, Event("GET", 0, 0,
                                          replaceInterpreter(opts.endpoint)))
               /\ pc' = "awaitStatus"
               /\ UNCHANGED <<outcome, wakeAt>>
          ELSE IF branch = "sleep"
          THEN /\ sleep(opts.retryPause, lg)
               /\ UNCHANGED <<outcome>>
          ELSE /\ Settle(branch)
               /\ log' = lg
               /\ UNCHANGED <<wakeAt>>
    /\ console' = IF RespOk(status) /\ opts.verbose /\ hasLength
                  THEN Append(console, Msg("response payload", 0))
                  ELSE console
    /\ responseType' = <<>>
    /\ statusHtml' = <<>>
    /\ UNCHANGED <<query, overpassOpts, opts, depth, now>>
    /\ UNCHANGED <<unitVars, concVars>>

\* fetch rejects (no response at all): nothing catches it
PostRejected ==
    /\ pc = "awaitPost"
    /\ Settle("FetchError")
    /\ log' = Append(log, Event("FAIL", 0, 0, <<>>))
    /\ responseType' = <<>>
    /\ statusHtml' = <<>>
    /\ UNCHANGED <<query, overpassOpts, opts, depth, console, now, wakeAt>>
    /\ UNCHANGED <<unitVars, concVars>>

\* the status response arrives: apiStatus (lines 169-188), then the callback
\* of apiStatus(...).then in overpass (lines 60-83)
StatusResponse(rt, html) ==
    /\ pc = "awaitStatus"
    /\ responseType' = rt
    /\ statusHtml' = IF typeIncorrect(rt) THEN <<>> ELSE html   \* resp.text() is not called
    /\ LET r == apiStatus(rt, html)
           lg == Append(log, Event("STATUS", 0, 0, <<>>))
       IN IF r.error # "none"
          THEN /\ Settle(r.error)
               /\ log' = lg
               /\ UNCHANGED <<query, opts, depth, console, wakeAt>>
          ELSE IF retryImmediately(r.value)
          THEN /\ overpass(query, oneLessRetry(opts), lg)
               /\ depth' = depth + 1
               /\ UNCHANGED <<outcome, wakeAt>>
          ELSE /\ console' = IF opts.verbose
                             THEN Append(console, Msg("waiting", lowestWaitTime(r.value)))
                             ELSE console
               /\ sleep(lowestWaitTime(r.value) * 1000, lg)
               /\ UNCHANGED <<query, opts, depth, outcome>>
    /\ UNCHANGED <<overpassOpts, now>>
    /\ UNCHANGED <<unitVars, concVars>>

\* the status fetch rejects (no response at all)
StatusRejected ==
    /\ pc = "awaitStatus"
    /\ Settle("FetchError")
    /\ log' = Append(log, Event("FAIL", 0, 0, <<>>))
    /\ UNCHANGED <<query, overpassOpts, opts, depth, console, now, wakeAt,
                   responseType, statusHtml>>
    /\ UNCHANGED <<unitVars, concVars>>

\* time passes while a timer is pending
Tick ==
    /\ pc = "sleeping"
    /\ now < wakeAt
    /\ now' = Min(now + TickMs, wakeAt)
    /\ UNCHANGED <<pc, query, overpassOpts, opts, depth, log, console, outcome,
                   wakeAt, responseType, statusHtml>>
    /\ UNCHANGED <<unitVars, concVars>>

\* the timer fires (never before its delay has passed) and the callback of
\* sleep(...).then re-invokes overpass (lines 81 and 91)
SleepDone ==
    /\ pc = "sleeping"
    /\ now >= wakeAt
    /\ overpass(query, oneLessRetry(opts), log)
    /\ depth' = depth + 1
    /\ UNCHANGED <<overpassOpts, outcome, now, wakeAt, responseType, statusHtml>>
    /\ UNCHANGED <<unitVars, concVars>>

Next ==
    \/ \E q \in Queries, o \in CallerOpts : Call(q, o)
    \/ \E status \in Statuses, hasLength \in BOOLEAN : PostResponse(status, hasLength)
    \/ PostRejected
    \/ \E rt \in ResponseTypes, html \in Reports : StatusResponse(rt, html)
    \/ StatusRejected
    \/ Tick
    \/ SleepDone

Spec == Init /\ [][Next]_vars

\* the same, with the environment assumed to answer every request and the
\* timer to fire: the only suspension points are the two fetches and the sleep
LiveSpec == Spec /\ WF_vars(Next)

-----------------------------------------------------------------------------
(* Observations on the log *)

Last(seq) == seq[Len(seq)]

IsPost(e) == e.ev = "POST"
\* the POST requests issued so far, in order: one per attempt
Posts == SelectSeq(log, IsPost)

\* the budget the first attempt of the call runs with
InitialBudget ==
    IF "numRetries" \in DOMAIN overpassOpts THEN overpassOpts.numRetries ELSE 1

\* log[i] is a response with this status received by an attempt whose
\* budget was n
RespAt(i, status, n) ==
    /\ log[i].ev = "RESP"
    /\ log[i].status = status
    /\ log[i].opts.numRetries = n

-----------------------------------------------------------------------------
(* C1 *)

\* C1: a 429 (a 504) received by an attempt whose budget is 0 ends the call
\* with the Rate Limit (Gateway Timeout) error, and that response is the last
\* thing that ever happens: no status GET, no POST, no pause after it.
C1_NoBudgetEndsCall ==
    \A i \in DOMAIN log :
        /\ RespAt(i, 429, 0) =>
              i = Len(log) /\ pc = "done" /\ outcome = "OverpassRateLimitError"
        /\ RespAt(i, 504, 0) =>
              i = Len(log) /\ pc = "done" /\ outcome = "OverpassGatewayTimeoutError"

\* a call made with numRetries: 0 whose first response was 504
C1_Witness ==
    /\ "numRetries" \in DOMAIN overpassOpts
    /\ overpassOpts.numRetries = 0
    /\ Len(log) = 2
    /\ RespAt(2, 504, 0)
    /\ outcome = "OverpassGatewayTimeoutError"

-----------------------------------------------------------------------------
(* C2 *)

\* C2: a call with initial budget N issues at most N+1 POSTs, the number of
\* nested re-invocations is the number of retries performed (POSTs after the
\* first), and the call eventually settles (a response or an error).
C2_BoundedAndTerminates ==
    /\ [](pc # "idle" =>
            /\ Len(Posts) <= InitialBudget + 1
            /\ depth = Len(Posts) - 1)
    /\ (pc # "idle") ~> (pc = "done" /\ outcome # "none")

\* the budget was used up: N+1 POSTs, N >= 2, and the call has ended
C2_Witness ==
    /\ pc = "done"
    /\ InitialBudget >= 2
    /\ Len(Posts) = InitialBudget + 1
    /\ depth = InitialBudget

-----------------------------------------------------------------------------
(* C3 *)

\* C3: the first attempt runs with the caller's budget (or the default 1), and
\* every later attempt with exactly one less than the attempt before it.
C3_BudgetDecreasesByOne ==
    /\ Posts # <<>> => Posts[1].opts.numRetries = InitialBudget
    /\ \A k \in 1..(Len(Posts) - 1) :
          Posts[k + 1].opts.numRetries = Posts[k].opts.numRetries - 1

\* a chain that started at 2 (not the default) and reached its third attempt
C3_Witness ==
    /\ Len(Posts) = 3
    /\ Posts[1].opts.numRetries = 2
    /\ Posts[3].opts.numRetries = 0
    /\ opts.numRetries = 0

-----------------------------------------------------------------------------
(* C4 *)

\* C4: a response with status 400, or with a non-success status other than
\* 429 and 504, ends the call whatever budget is left: Bad Request error for
\* 400, generic error otherwise, and the response is the last thing that
\* happens (no POST, no status GET, no pause).
C4_NotRetried ==
    \A i \in DOMAIN log :
        (log[i].ev = "RESP" /\ ~(log[i].status \in 200..299)
            /\ log[i].status \notin {429, 504}) =>
           /\ i = Len(log)
           /\ pc = "done"
           /\ outcome = IF log[i].status = 400 THEN "OverpassBadRequestError"
                        ELSE "OverpassError"

\* a 500 answered to a retry that still had budget
C4_Witness ==
    /\ Len(Posts) = 2
    /\ opts.numRetries > 0
    /\ Last(log).ev = "RESP"
    /\ Last(log).status = 500
    /\ outcome = "OverpassError"

-----------------------------------------------------------------------------
(* What a status report says, read as section 4.2 of the specification      *)
(* reads it (used to state C5, C6 and C10; parseApiStatus above is the code) *)

IsSlotLine(l) == l.word = "Slot"
IsRunningLine(l) ==
    /\ l.word \notin {"Connected", "Current", "Rate", "Slot", "Currently"}
    /\ ~l.available
IsRateLine(l) == l.word = "Rate"
IsConnectedLine(l) == l.word = "Connected"

\* the lines of each kind in the report, in line order
ReportedSlots(html) == SelectSeq(html, IsSlotLine)
ReportedRunning(html) == SelectSeq(html, IsRunningLine)
ReportedRates(html) == SelectSeq(html, IsRateLine)

\* the report names the client and gives a numeric rate limit
ReportWellFormed(html) ==
    /\ SelectSeq(html, IsConnectedLine) # <<>>
    /\ ReportedRates(html) # <<>>
    /\ Last(ReportedRates(html)).int # NaN

ReportedRateLimit(html) == Last(ReportedRates(html)).int[1]

\* rateLimit == 0 or rateLimit > len(slotsRunning) + len(slotsAvailableAfter)
ReportedCapacity(html) ==
    \/ ReportedRateLimit(html) = 0
    \/ ReportedRateLimit(html) >
          Len(ReportedRunning(html)) + Len(ReportedSlots(html))

RECURSIVE MinSlot(_)
\* min(slotsAvailableAfter) of a report with at least one Slot line
MinSlot(slots) ==
    IF Len(slots) = 1 THEN Head(slots).int[1]
    ELSE Min(Head(slots).int[1], MinSlot(Tail(slots)))

Max(a, b) == IF a >= b THEN a ELSE b

\* the state right after a status response was handled: the STATUS entry is
\* the last of the log (the fetch failed the call) or the last but one
\* (followed by the retry POST or by the SLEEP)
JustAfterStatus ==
    \E i \in DOMAIN log : log[i].ev = "STATUS" /\ i >= Len(log) - 1

TypePlain == responseType # <<>> /\ responseType[1] = "text/plain"

\* the retry POST was sent in the handler of the status response itself
RetriedImmediately ==
    /\ Len(log) >= 2
    /\ log[Len(log) - 1].ev = "STATUS"
    /\ Last(log).ev = "POST"
    /\ Last(log).at = log[Len(log) - 1].at

-----------------------------------------------------------------------------
(* C5 *)

\* C5: after a 429 with budget left and a well-formed status report, the
\* retry is immediate exactly when the report shows rateLimit == 0 or
\* rateLimit > running + saturated slots (e.g. rateLimit 2 with one running
\* query; rateLimit 0 whatever the slot lines).
C5_ImmediateIffCapacity ==
    (JustAfterStatus /\ TypePlain /\ ReportWellFormed(statusHtml)) =>
        (RetriedImmediately <=> ReportedCapacity(statusHtml))

-----------------------------------------------------------------------------
(* C6 *)

\* C6: after a 429 with budget left and a well-formed report that shows no
\* free capacity and lists saturated slots, the executor pauses for
\* max(0, min(slotsAvailableAfter)) + 1 seconds before the retry (6 s for
\* rateLimit 1, one running query and one slot free in 5 s).
C6_WaitsForFirstSlot ==
    ( /\ JustAfterStatus
      /\ TypePlain
      /\ ReportWellFormed(statusHtml)
      /\ ~ReportedCapacity(statusHtml)
      /\ ReportedSlots(statusHtml) # <<>> ) =>
        /\ Last(log).ev = "SLEEP"
        /\ Last(log).ms =
              (Max(0, MinSlot(ReportedSlots(statusHtml))) + 1) * 1000

-----------------------------------------------------------------------------
(* C7 *)

\* C7: a 504 received with budget left is followed by a pause of retryPause
\* milliseconds and nothing else (no status GET); the next POST comes after the
\* pause, not earlier than retryPause after the response, with the budget one
\* lower.
C7_PauseThenRetry ==
    \A i \in DOMAIN log :
        (log[i].ev = "RESP" /\ log[i].status = 504
            /\ log[i].opts.numRetries > 0) =>
           /\ i + 1 <= Len(log)
           /\ log[i + 1].ev = "SLEEP"
           /\ log[i + 1].ms = log[i].opts.retryPause
           /\ i + 2 <= Len(log) =>
                 /\ log[i + 2].ev = "POST"
                 /\ log[i + 2].at >= log[i].at + log[i].opts.retryPause
                 /\ log[i + 2].opts.numRetries = log[i].opts.numRetries - 1
           /\ i + 1 = Len(log) => pc = "sleeping"

\* the retry POST after a 504 and the default pause of 2000 ms
C7_Witness ==
    /\ Len(log) = 4
    /\ log[2].ev = "RESP" /\ log[2].status = 504
    /\ log[3].ev = "SLEEP" /\ log[3].ms = 2000
    /\ log[4].ev = "POST" /\ log[4].at = 2000
    /\ pc = "awaitPost"

-----------------------------------------------------------------------------
(* C8 *)

\* C8: the Rate Limit (Gateway Timeout) error reaches the caller only from an
\* attempt that received 429 (504) with budget 0, after exactly the initial
\* budget of retries; a 429 or 504 received while budget remains never ends the
\* call: the status GET or the pause follows it.
C8_ErrorOnlyWhenExhausted ==
    /\ outcome = "OverpassRateLimitError" =>
          RespAt(Len(log), 429, 0) /\ depth = InitialBudget
    /\ outcome = "OverpassGatewayTimeoutError" =>
          RespAt(Len(log), 504, 0) /\ depth = InitialBudget
    /\ \A i \in DOMAIN log :
          (log[i].ev = "RESP" /\ log[i].status \in {429, 504}
              /\ log[i].opts.numRetries > 0) =>
             i < Len(log) /\ log[i + 1].ev \in {"GET", "SLEEP"}

\* the Rate Limit error after two retries of a call with numRetries: 2
C8_Witness ==
    /\ outcome = "OverpassRateLimitError"
    /\ InitialBudget = 2
    /\ depth = 2
    /\ Len(Posts) = 3

-----------------------------------------------------------------------------
(* C9 *)

\* C9: the status fetch fails with the API Status error when the content type
\* (parameters ignored) is absent or not text/plain, and when the parser
\* returned a snapshot without clientId; the retry decision (the retry POST or
\* the pause) is reached only with a text/plain report whose snapshot has
\* clientId.
C9_StatusFetchChecks ==
    JustAfterStatus =>
        LET parsed == parseApiStatus(statusHtml)
            failed == Last(log).ev = "STATUS"
        IN /\ ~TypePlain =>
                 failed /\ pc = "done" /\ outcome = "OverpassApiStatusError"
           /\ (TypePlain /\ ~parsed.threw
                 /\ "clientId" \notin DOMAIN parsed.status) =>
                 failed /\ pc = "done" /\ outcome = "OverpassApiStatusError"
           /\ ~failed =>
                 /\ TypePlain
                 /\ ~parsed.threw
                 /\ "clientId" \in DOMAIN parsed.status

\* a text/plain report with a Rate line and no Connected line
C9_Witness ==
    /\ JustAfterStatus
    /\ responseType = <<"text/plain", " charset=utf-8">>
    /\ statusHtml = <<RateLine(2)>>
    /\ outcome = "OverpassApiStatusError"

-----------------------------------------------------------------------------
(* C10 *)

\* C10: parseApiStatus returns a snapshot for every report text (Slot lines,
\* running-query lines, blank lines included) and never raises, so the status
\* fetch never fails with anything but the API Status error.
C10_ParserNeverRaises ==
    statusHtml # <<>> =>
        /\ ~parseApiStatus(statusHtml).threw
        /\ outcome # "TypeError"

-----------------------------------------------------------------------------
(* C17 *)

\* the configuration of an attempt apart from its budget
ConfigOf(e) ==
    [q |-> e.q, endpoint |-> e.opts.endpoint, retryPause |-> e.opts.retryPause,
     userAgent |-> e.opts.userAgent, verbose |-> e.opts.verbose]

\* C17: every attempt of a call is issued with the query, endpoint,
\* retryPause, userAgent and verbose of the first attempt (which are the
\* caller's values where given, the defaults otherwise), to the endpoint of
\* its opts; only numRetries differs between consecutive attempts.
C17_RetryKeepsConfig ==
    \A k \in DOMAIN Posts :
        /\ ConfigOf(Posts[k]) = ConfigOf(Posts[1])
        /\ Posts[k].url = Posts[1].opts.endpoint
        /\ \A key \in DOMAIN overpassOpts \ {"numRetries"} :
              Posts[k].opts[key] = overpassOpts[key]
        /\ k > 1 => Posts[k].opts.numRetries # Posts[k - 1].opts.numRetries

\* the third attempt of a call that set every option
C17_Witness ==
    /\ Len(Posts) = 3
    /\ DOMAIN overpassOpts = AllKeys
    /\ opts.endpoint = <<"alt", "/interpreter">>
    /\ opts.userAgent = "ua2"
    /\ opts.retryPause = 500
    /\ opts.verbose

-----------------------------------------------------------------------------
(* C18 *)

\* C18: when the status fetched after a 429 with budget left has a wrong
\* content type, or parses to a snapshot without clientId, the call ends there
\* with the API Status error (not the Rate Limit error): the log ends
\* RESP 429, GET, STATUS, with no pause and no retry POST, budget unused.
C18_StatusFailureEndsCall ==
    ( /\ JustAfterStatus
      /\ \/ ~TypePlain
         \/ /\ ~parseApiStatus(statusHtml).threw
            /\ "clientId" \notin DOMAIN parseApiStatus(statusHtml).status ) =>
        /\ Len(log) >= 3
        /\ Last(log).ev = "STATUS"
        /\ log[Len(log) - 1].ev = "GET"
        /\ log[Len(log) - 2].ev = "RESP"
        /\ log[Len(log) - 2].status = 429
        /\ opts.numRetries > 0
        /\ pc = "done"
        /\ outcome = "OverpassApiStatusError"
        /\ Len(Posts) = depth + 1

\* a text/html status response met by an attempt with budget 2
C18_Witness ==
    /\ JustAfterStatus
    /\ responseType = <<"text/html">>
    /\ opts.numRetries = 2
    /\ outcome = "OverpassApiStatusError"
    /\ Len(Posts) = 1

-----------------------------------------------------------------------------
(* C19 *)

\* C19: a status GET (to the endpoint with "/interpreter" replaced by
\* "/status") directly follows a 429 received with budget left and nothing
\* else; every such 429 is followed by exactly one GET; after the GET comes its
\* answer, then at most one pause, then the retry POST.
C19_StatusGetOrder ==
    \A i \in DOMAIN log :
        /\ log[i].ev = "GET" =>
              /\ i > 1
              /\ log[i - 1].ev = "RESP"
              /\ log[i - 1].status = 429
              /\ log[i - 1].opts.numRetries > 0
              /\ log[i].url = replaceInterpreter(log[i].opts.endpoint)
              /\ i < Len(log) => log[i + 1].ev \in {"STATUS", "FAIL"}
        /\ (log[i].ev = "RESP" /\ log[i].status = 429
               /\ log[i].opts.numRetries > 0) =>
              i < Len(log) /\ log[i + 1].ev = "GET"
        /\ (log[i].ev = "RESP" /\ i < Len(log)) => log[i + 1].ev \in {"GET", "SLEEP"}
        /\ (log[i].ev = "STATUS" /\ i < Len(log)) =>
              log[i + 1].ev \in {"SLEEP", "POST"}
        /\ (log[i].ev = "SLEEP" /\ i < Len(log)) => log[i + 1].ev = "POST"
        /\ (log[i].ev = "POST" /\ i < Len(log)) => log[i + 1].ev \in {"RESP", "FAIL"}

\* POST, 429, GET, STATUS, SLEEP, POST: a rate-limited retry after a pause
C19_Witness ==
    /\ Len(log) = 6
    /\ log[2].ev = "RESP" /\ log[2].status = 429
    /\ log[3].ev = "GET" /\ log[3].url = <<"main", "/status">>
    /\ log[4].ev = "STATUS"
    /\ log[5].ev = "SLEEP"
    /\ log[6].ev = "POST"

-----------------------------------------------------------------------------
(* The backoff decision on its own: the callback of lines 60-83 applied to   *)
(* any value of type OverpassApiStatus                                       *)

\* seconds until a slot is free, as a Slot line may give them
WaitTimes == {-3, 0, 5}

RateLimits == { Num(n) : n \in -1..3 } \cup {NaN}

SlotLists == {<<>>} \cup SeqsUpTo(WaitTimes, MaxSlots)
RunningLists == {<<>>} \cup SeqsUpTo({RunningLine.fields}, MaxSlots)

Snapshots ==
    { [clientId |-> "7", rateLimit |-> r, slotsRunning |-> run,
       slotsAvailableAfter |-> slots] :
        r \in RateLimits, run \in RunningLists, slots \in SlotLists }
    \cup
    { [clientId |-> "7", slotsRunning |-> run, slotsAvailableAfter |-> slots] :
        run \in RunningLists, slots \in SlotLists }

BackoffInit ==
    /\ ExecInit
    /\ ConcIdle
    /\ parses = <<>>
    /\ adapter = NoAdapter
    /\ snapshot \in Snapshots
    /\ decision = NoDecision

\* lines 64-82: retry at once, or compute the wait and sleep
Decide ==
    /\ ~decision.made
    /\ decision' =
          IF retryImmediately(snapshot)
          THEN [made |-> TRUE, immediate |-> TRUE, wait |-> 0]
          ELSE [made |-> TRUE, immediate |-> FALSE,
                wait |-> lowestWaitTime(snapshot)]
    /\ UNCHANGED <<execVars, concVars, snapshot, parses, adapter>>

BackoffNext == Decide

BackoffSpec == BackoffInit /\ [][BackoffNext]_vars

-----------------------------------------------------------------------------
(* C13 *)

\* C13: the wait computed for a delayed retry is at least 1 second whenever
\* slotsAvailableAfter is non-empty and all its waits are >= 0.
C13_WaitAtLeastOneSecond ==
    ( /\ decision.made
      /\ ~decision.immediate
      /\ snapshot.slotsAvailableAfter # <<>>
      /\ \A i \in DOMAIN snapshot.slotsAvailableAfter :
            snapshot.slotsAvailableAfter[i] >= 0 ) =>
        decision.wait >= 1

\* rateLimit 1, one running query, slots free in 5 and 0 seconds: a delayed
\* retry
C13_Witness ==
    /\ decision.made
    /\ ~decision.immediate
    /\ "rateLimit" \in DOMAIN snapshot
    /\ snapshot.rateLimit = Num(1)
    /\ Len(snapshot.slotsRunning) = 1
    /\ snapshot.slotsAvailableAfter = <<5, 0>>
    /\ decision.wait >= 1

-----------------------------------------------------------------------------
(* The status parser on its own: consecutive calls of parseApiStatus *)

OtherConnectedLine == Line("Connected", FALSE, "8", NaN, <<"Connected as: 8">>)

ParseTexts ==
    ExampleReports \cup
    { <<ConnectedLine>>, <<RateLine(2)>>, <<CurrentLine>>, <<AvailableLine>>,
      <<CurrentlyLine>>, <<BlankLine>>, <<SlotLine(5)>>, <<RunningLine>>,
      <<ConnectedLine, OtherConnectedLine, RateLine(2), RateLine(0)>>,
      <<OtherConnectedLine, ConnectedLine, RateLine(0), RateNaNLine>>,
      <<ConnectedLine, RateLine(2), AvailableLine, SlotLine(5), SlotLine(0)>> }

ParseInit ==
    /\ ExecInit
    /\ ConcIdle
    /\ snapshot = emptyStatus
    /\ decision = NoDecision
    /\ adapter = NoAdapter
    /\ parses = <<>>

\* one call parseApiStatus(html) (lines 250-274), after the calls made so far
Parse(html) ==
    /\ Len(parses) < MaxParses
    /\ LET previous == IF parses = <<>> THEN emptyStatus
                       ELSE parses[Len(parses)].status
           r == forEachLine(html, newStatus(previous))
       IN parses' = Append(parses, [html |-> html, threw |-> r.threw,
                                    status |-> r.status])
    /\ UNCHANGED <<execVars, concVars, snapshot, decision, adapter>>

ParseNext == \E html \in ParseTexts : Parse(html)

ParseSpec == ParseInit /\ [][ParseNext]_vars

-----------------------------------------------------------------------------
(* C14 *)

\* C14: two parses of the same text give the same result (both raise, or
\* both return snapshots with the same fields and values), whatever was
\* parsed in between.
C14_SameTextSameSnapshot ==
    \A i, j \in DOMAIN parses :
        parses[i].html = parses[j].html =>
           /\ parses[i].threw = parses[j].threw
           /\ ~parses[i].threw =>
                 /\ DOMAIN parses[i].status = DOMAIN parses[j].status
                 /\ \A k \in DOMAIN parses[i].status :
                       parses[i].status[k] = parses[j].status[k]

\* a text without a Connected line parsed before and after a text with one
C14_Witness ==
    /\ Len(parses) = 3
    /\ parses[1].html = <<RateLine(2)>>
    /\ parses[2].html = <<ConnectedLine>>
    /\ parses[3].html = <<RateLine(2)>>
    /\ ~parses[3].threw
    /\ "clientId" \in DOMAIN parses[2].status
    /\ "clientId" \notin DOMAIN parses[3].status

-----------------------------------------------------------------------------
(* C15 *)

RECURSIVE MapInt(_)
MapInt(lines) ==
    IF lines = <<>> THEN <<>> ELSE <<Head(lines).int>> \o MapInt(Tail(lines))

RECURSIVE MapFields(_)
MapFields(lines) ==
    IF lines = <<>> THEN <<>> ELSE <<Head(lines).fields>> \o MapFields(Tail(lines))

IsCurrentLine(l) == l.word = "Current"

\* C15: after a parse, slotsAvailableAfter holds the integer of every Slot
\* line in line order, slotsRunning the fields of every line without a
\* recognised first word and without "available" in line order, and each
\* scalar field the value of the last line that sets it.
C15_ListsPopulated ==
    \A i \in DOMAIN parses :
        LET html == parses[i].html
            st == parses[i].status
        IN /\ ~parses[i].threw
           /\ st.slotsAvailableAfter = MapInt(ReportedSlots(html))
           /\ st.slotsRunning = MapFields(ReportedRunning(html))
           /\ SelectSeq(html, IsConnectedLine) # <<>> =>
                 st.clientId = Last(SelectSeq(html, IsConnectedLine)).rest
           /\ ReportedRates(html) # <<>> =>
                 st.rateLimit = Last(ReportedRates(html)).int
           /\ SelectSeq(html, IsCurrentLine) # <<>> =>
                 st.currentTime = Last(SelectSeq(html, IsCurrentLine)).int

-----------------------------------------------------------------------------
(* The result adapters on their own: overpassJson, overpassXml, overpassCsv, *)
(* overpassStream applied to the settled promise of overpass()               *)

\* One line of a response body (text.split("\n")): its length in characters,
\* whether it ends with "</remark>", and the group 1 of
\* /<remark>\s*(.+)\s*<\/remark>/ on it ("" when the line does not match).
BodyLine(text, len, closes, remark) ==
    [text |-> text, len |-> len, closes |-> closes, remark |-> remark]

HeaderLine  == BodyLine("<osm version=0.6>", 17, FALSE, "")
NodeLine    == BodyLine("<node id=1/>", 12, FALSE, "")
Remark1Line == BodyLine("<remark> e1 </remark>", 21, TRUE, "e1 ")
Remark2Line == BodyLine("<remark> e2 </remark>", 21, TRUE, "e2 ")
OsmEndLine  == BodyLine("</osm>", 6, FALSE, "")
EmptyLine   == BodyLine("", 0, FALSE, "")
JsonText    == BodyLine("{version: 0.6, elements: [], ...}", 33, FALSE, "")
CsvRow      == BodyLine("1,node", 6, FALSE, "")

\* a body: what JSON.parse makes of it (format "json" and the value of its
\* remark member, "absent" when it has none) and its text, line by line
Body(format, remark, lines) ==
    [format |-> format, remark |-> remark, lines |-> lines]

XmlTails ==
    { <<OsmEndLine, EmptyLine>>,             \* ...\n</osm>\n
      <<EmptyLine, OsmEndLine, EmptyLine>>,  \* ...\n\n</osm>\n
      <<OsmEndLine>> }                       \* ...\n</osm>

Bodies ==
    { Body("json", r, <<JsonText>>) : r \in {"absent", "", "runtime error"} }
    \cup { Body("xml", "absent", <<HeaderLine>> \o mid \o tail) :
             mid \in {<<>>} \cup SeqsUpTo({NodeLine, Remark1Line, Remark2Line},
                                         MaxXmlLines),
             tail \in XmlTails }
    \cup { Body("xml", "absent", <<Remark1Line>> \o tail) : tail \in XmlTails }
    \cup { Body("csv", "absent", <<CsvRow, CsvRow, EmptyLine>>),
           Body("csv", "absent", <<EmptyLine>>) }

Adapters == {"overpassJson", "overpassXml", "overpassCsv", "overpassStream"}

\* how the promise of overpass() can settle
Settlements ==
    { "response", "OverpassBadRequestError", "OverpassRateLimitError",
      "OverpassGatewayTimeoutError", "OverpassError",
      "OverpassApiStatusError", "TypeError", "FetchError" }

Returned(value) == [threw |-> "none", message |-> <<>>, value |-> value]
Thrown(error, message) == [threw |-> error, message |-> message, value |-> "none"]

RECURSIVE SumLen(_)
SumLen(lines) ==
    IF lines = <<>> THEN 0 ELSE Head(lines).len + SumLen(Tail(lines))

\* text.length: the lines and the newlines between them
textLength(lines) == SumLen(lines) + Len(lines) - 1

\* the offset just after line k
lineEnd(lines, k) == SumLen(SubSeq(lines, 1, k)) + k - 1

\* text.slice(-18, -9) === "</remark>" (line 137)
remarkAtEnd(lines) ==
    \E k \in DOMAIN lines :
        lines[k].closes /\ lineEnd(lines, k) = textLength(lines) - 9

RECURSIVE collectRemarks(_, _)
\* the loop of lines 144-148 from index i (counted from 0) downwards
collectRemarks(textLines, i) ==
    IF i > 0
    THEN IF textLines[i + 1].remark # ""
         THEN <<textLines[i + 1].remark>> \o collectRemarks(textLines, i - 1)
         ELSE <<>>
    ELSE <<>>

\* faulty variant of jsonResult: the remark is not looked at
jsonResultUnchecked(body) ==
    IF body.format # "json" THEN Thrown("SyntaxError", <<>>)
    ELSE Returned("json")

\* overpassJson after overpass() returned a response (lines 114-122)
jsonResult(body) ==
    IF body.format # "json" THEN Thrown("SyntaxError", <<>>)   \* resp.json() rejects
    ELSE IF body.remark \notin {"absent", ""}
    THEN Thrown("OverpassError", <<body.remark>>)
    ELSE Returned("json")

\* overpassXml after overpass() returned a response (lines 130-152)
xmlResult(body) ==
    IF remarkAtEnd(body.lines)
    THEN Thrown("OverpassError", collectRemarks(body.lines, Len(body.lines) - 4))
    ELSE Returned("text")

\* overpassCsv after overpass() returned a response (line 159)
csvResult(body) == Returned("text")

\* overpassStream after overpass() returned a response (line 166)
streamResult(body) == Returned("body")

AdapterInit ==
    /\ ExecInit
    /\ ConcIdle
    /\ snapshot = emptyStatus
    /\ decision = NoDecision
    /\ parses = <<>>
    /\ \E fn \in Adapters, settled \in Settlements, body \in Bodies :
          adapter = [fn |-> fn, settled |-> settled,
                     body |-> IF settled = "response" THEN body ELSE NoBody,
                     result |-> Pending]

\* the .then chain of the adapter runs on the settled promise of overpass():
\* an error of overpass() passes through, a response is decoded and checked
Adapt ==
    /\ adapter.result = Pending
    /\ adapter' =
          [adapter EXCEPT !.result =
              IF adapter.settled # "response" THEN Thrown(adapter.settled, <<>>)
              ELSE IF adapter.fn = "overpassJson" THEN jsonResult(adapter.body)
              ELSE IF adapter.fn = "overpassXml" THEN xmlResult(adapter.body)
              ELSE IF adapter.fn = "overpassCsv" THEN csvResult(adapter.body)
              ELSE streamResult(adapter.body)]
    /\ UNCHANGED <<execVars, concVars, snapshot, decision, parses>>

AdapterNext == Adapt

AdapterSpec == AdapterInit /\ [][AdapterNext]_vars

-----------------------------------------------------------------------------
(* C12 *)

\* the characters after the last line that ends with "</remark>"
RECURSIVE TailAfterClose(_)
TailAfterClose(lines) ==
    IF lines = <<>> \/ lines[Len(lines)].closes THEN 0
    ELSE lines[Len(lines)].len + 1
           + TailAfterClose(SubSeq(lines, 1, Len(lines) - 1))

HasClose(l) == l.closes

\* "</remark>" sits where the service writes the last one: 18 to 9 characters
\* from the end of the text
RemarkInPlace(body) ==
    /\ SelectSeq(body.lines, HasClose) # <<>>
    /\ TailAfterClose(body.lines) = 9

\* the body carries a remark as the service writes it: a non-empty remark
\* member in JSON, a remark element closing 9 characters before the end of
\* the text
EmbedsRemark(body) ==
    \/ body.format = "json" /\ body.remark \notin {"absent", ""}
    \/ RemarkInPlace(body)

\* the adapter has run on a response of the format it decodes (overpassCsv
\* and overpassStream take the body as it is)
Decoded ==
    /\ adapter.result # Pending
    /\ adapter.settled = "response"
    /\ adapter.fn = "overpassJson" => adapter.body.format = "json"
    /\ adapter.fn = "overpassXml" => adapter.body.format = "xml"

\* C12 as claimed: each of the four adapters raises an error when the body of
\* the successful response embeds a remark, and returns the decoded result
\* when it does not.
C12_EveryAdapterChecks ==
    Decoded =>
        IF EmbedsRemark(adapter.body)
        THEN adapter.result.threw = "OverpassError"
        ELSE adapter.result.threw = "none"

\* C12 as amended: overpassJson raises OverpassError exactly when the decoded
\* JSON has a non-empty remark, overpassXml exactly when "</remark>" sits 18
\* to 9 characters from the end of the text; otherwise they return the JSON
\* value and the text. overpassCsv and overpassStream return the text and the
\* body stream unchecked. An error of overpass() passes through every adapter.
C12_JsonAndXmlCheck ==
    adapter.result # Pending =>
        IF adapter.settled # "response"
        THEN adapter.result.threw = adapter.settled
        ELSE /\ (adapter.fn = "overpassJson" /\ adapter.body.format = "json") =>
                   IF adapter.body.remark \notin {"absent", ""}
                   THEN /\ adapter.result.threw = "OverpassError"
                        /\ adapter.result.message = <<adapter.body.remark>>
                   ELSE adapter.result = Returned("json")
             /\ adapter.fn = "overpassXml" =>
                   IF RemarkInPlace(adapter.body)
                   THEN adapter.result.threw = "OverpassError"
                   ELSE adapter.result = Returned("text")
             /\ adapter.fn = "overpassCsv" => adapter.result = Returned("text")
             /\ adapter.fn = "overpassStream" => adapter.result = Returned("body")

\* overpassJson on a response whose JSON carries a remark
C12_Witness ==
    /\ adapter.fn = "overpassJson"
    /\ adapter.settled = "response"
    /\ adapter.body = Body("json", "runtime error", <<JsonText>>)
    /\ adapter.result = Thrown("OverpassError", <<"runtime error">>)

-----------------------------------------------------------------------------
(* Two calls of overpass() in flight at once. The objects that outlive one   *)
(* call are the module's defaultOpts and the options objects of the callers; *)
(* everything else lives in the closures of the call.                        *)

CallIds == {1, 2}

ConcOpts ==
    { PartialOpts(keys, n, 500, TRUE) :
        keys \in {{}, {"numRetries"}, AllKeys}, n \in 0..MaxRetries }

\* one call: where it stands, the options object it was given (as it was when
\* the call was made), its opts, its recursion depth, the opts of each POST
NewCall(o) ==
    [pc |-> "idle", supplied |-> o, opts |-> defaultOpts, depth |-> 0,
     posts |-> <<>>, outcome |-> "none"]

ConcInit ==
    /\ ExecInit
    /\ UnitIdle
    /\ defaults = defaultOpts
    /\ options \in [CallIds -> ConcOpts]
    /\ calls = [i \in CallIds |-> NewCall(options[i])]

\* overpass(query, o) of call i up to the fetch: line 23 reads the defaults
\* and o as they are now
invoke(i, o, d) ==
    LET r == overlay(defaults, o) IN
    /\ calls' = [calls EXCEPT ![i].pc = "awaitPost",
                              ![i].opts = r.target,
                              ![i].depth = d,
                              ![i].posts = Append(@, r.target)]
    /\ defaults' = r.defaults

settle(i, result) ==
    /\ calls' = [calls EXCEPT ![i].pc = "done", ![i].outcome = result]
    /\ UNCHANGED defaults

move(i, to) ==
    /\ calls' = [calls EXCEPT ![i].pc = to]
    /\ UNCHANGED defaults

\* the user calls overpass(query, options[i])
ConcCall(i) ==
    /\ calls[i].pc = "idle"
    /\ invoke(i, options[i], 0)
    /\ UNCHANGED <<execVars, unitVars, options>>

\* the callback of fetch(...).then of call i (lines 41-106)
ConcPostResponse(i, status) ==
    /\ calls[i].pc = "awaitPost"
    /\ LET branch == respBranch(status, calls[i].opts) IN
         IF branch = "apiStatus" THEN move(i, "awaitStatus")
         ELSE IF branch = "sleep" THEN move(i, "sleeping")
         ELSE settle(i, branch)
    /\ UNCHANGED <<execVars, unitVars, options>>

\* the status response of call i arrives (lines 60-83)
ConcStatusResponse(i, rt, html) ==
    /\ calls[i].pc = "awaitStatus"
    /\ LET r == apiStatus(rt, html) IN
         IF r.error # "none" THEN settle(i, r.error)
         ELSE IF retryImmediately(r.value)
         THEN invoke(i, oneLessRetry(calls[i].opts), calls[i].depth + 1)
         ELSE move(i, "sleeping")
    /\ UNCHANGED <<execVars, unitVars, options>>

\* the timer of call i fires (lines 81 and 91)
ConcSleepDone(i) ==
    /\ calls[i].pc = "sleeping"
    /\ invoke(i, oneLessRetry(calls[i].opts), calls[i].depth + 1)
    /\ UNCHANGED <<execVars, unitVars, options>>

ConcNext ==
    \E i \in CallIds :
        \/ ConcCall(i)
        \/ \E status \in Statuses : ConcPostResponse(i, status)
        \/ \E rt \in ResponseTypes, html \in ExampleReports :
              ConcStatusResponse(i, rt, html)
        \/ ConcSleepDone(i)

ConcSpec == ConcInit /\ [][ConcNext]_vars

-----------------------------------------------------------------------------
(* C11 *)

\* the opts of the k-th attempt of a call that was given the options o, when
\* nothing but the call's own retries has a say: the defaults as written in
\* the source overlaid with o, the budget k-1 lower
OwnOpts(o, k) ==
    LET first == [key \in AllKeys |->
                    IF key \in DOMAIN o THEN o[key] ELSE defaultOpts[key]]
    IN [first EXCEPT !.numRetries = @ - (k - 1)]

\* C11: calls in flight at the same time share no mutable state. Whatever the
\* other call has done, the defaults are as written in the source (numRetries
\* 1), each options object is as its caller supplied it, and every attempt of
\* each call runs with the call's own configuration and its own budget,
\* lowered only by its own retries.
C11_CallsShareNothing ==
    /\ defaults = defaultOpts
    /\ defaults.numRetries = 1
    /\ \A i \in DOMAIN calls :
          /\ options[i] = calls[i].supplied
          /\ Len(calls[i].posts) = (IF calls[i].pc = "idle" THEN 0
                                    ELSE calls[i].depth + 1)
          /\ \A k \in DOMAIN calls[i].posts :
                calls[i].posts[k] = OwnOpts(calls[i].supplied, k)

\* call 1 has lowered its budget to 0 in a retry; call 2, made with no
\* options, is on its first attempt with the default budget
C11_Witness ==
    /\ calls # <<>>
    /\ calls[1].depth = 1
    /\ calls[1].opts.numRetries = 0
    /\ calls[2].pc = "awaitPost"
    /\ calls[2].depth = 0
    /\ DOMAIN options[2] = {}
    /\ calls[2].opts.numRetries = 1

-----------------------------------------------------------------------------
(* Two calls side by side that are given the same query, options that differ *)
(* only in verbose, and the same answers from the service. Each handler is   *)
(* written as a function of the call's own state.                            *)

\* options without a verbose key
QuietOpts ==
    { PartialOpts(keys, n, 500, FALSE) :
        keys \in {{}, {"numRetries"}, {"numRetries", "retryPause"},
                  AllKeys \ {"verbose"}},
        n \in 0..MaxRetries }

\* one call: the requests and pauses it has issued (trace) and what it has
\* written to the console
NewRun ==
    [pc |-> "idle", opts |-> defaultOpts, depth |-> 0, trace |-> <<>>,
     console |-> <<>>, outcome |-> "none"]

Issued(ev, o, ms, url) == [ev |-> ev, opts |-> o, ms |-> ms, url |-> url]

\* utils.consoleMsg (lines 241-243)
consoleMsg(run, msg) == [run EXCEPT !.console = Append(@, msg)]

\* overpass(query, o) up to the fetch (lines 23-41)
runOverpass(run, o, d) ==
    LET opts1 == overlay(defaultOpts, o).target
        said  == IF opts1.verbose
                 THEN consoleMsg(consoleMsg(run, Msg("endpoint", 0)),
                                 Msg("query", 0))
                 ELSE run
    IN [said EXCEPT !.pc = "awaitPost", !.opts = opts1, !.depth = d,
                    !.trace = Append(@, Issued("POST", opts1, 0, opts1.endpoint))]

runRetry(run) == runOverpass(run, oneLessRetry(run.opts), run.depth + 1)

runSleep(run, ms) ==
    [run EXCEPT !.pc = "sleeping",
                !.trace = Append(@, Issued("SLEEP", run.opts, ms, <<>>))]

runSettle(run, result) == [run EXCEPT !.pc = "done", !.outcome = result]

\* the callback of fetch(...).then (lines 41-106)
runPostResponse(run, status, hasLength) ==
    LET branch == respBranch(status, run.opts) IN
    IF branch = "apiStatus"
    THEN [run EXCEPT !.pc = "awaitStatus",
                     !.trace = Append(@, Issued("GET", run.opts, 0,
                                       replaceInterpreter(run.opts.endpoint)))]
    ELSE IF branch = "sleep" THEN runSleep(run, run.opts.retryPause)
    ELSE IF branch = "response"
    THEN runSettle(IF run.opts.verbose /\ hasLength
                   THEN consoleMsg(run, Msg("response payload", 0))
                   ELSE run,
                   "response")
    ELSE runSettle(run, branch)

\* faulty variant of backoff: the pause sits inside the verbose check
backoffOnlyVerbose(run, st) ==
    IF run.opts.verbose
    THEN runSleep(consoleMsg(run, Msg("waiting", lowestWaitTime(st))),
                  lowestWaitTime(st) * 1000)
    ELSE runRetry(run)

\* the else branch of lines 72-82: say so if verbose, then pause
backoff(run, st) ==
    runSleep(IF run.opts.verbose
             THEN consoleMsg(run, Msg("waiting", lowestWaitTime(st)))
             ELSE run,
             lowestWaitTime(st) * 1000)

\* the status response arrives (lines 169-188, then 60-83)
runStatusResponse(run, rt, html) ==
    LET r == apiStatus(rt, html) IN
    IF r.error # "none" THEN runSettle(run, r.error)
    ELSE IF retryImmediately(r.value) THEN runRetry(run)
    ELSE backoff(run, r.value)

PairInit ==
    /\ ExecInit
    /\ UnitIdle
    /\ defaults = defaultOpts
    /\ \E o \in QuietOpts :
          \E quiet \in {o, ObjectAssign(o, [verbose |-> FALSE])} :
             options = <<quiet, ObjectAssign(o, [verbose |-> TRUE])>>
    /\ calls = <<NewRun, NewRun>>

\* both calls are made
PairCall ==
    /\ calls[1].pc = "idle"
    /\ calls' = [i \in DOMAIN calls |-> runOverpass(calls[i], options[i], 0)]
    /\ UNCHANGED <<execVars, unitVars, defaults, options>>

\* the same response to the POST reaches each call that waits for one
PairPostResponse(status, hasLength) ==
    /\ calls[1].pc = "awaitPost"
    /\ calls' = [i \in DOMAIN calls |->
                   IF calls[i].pc = "awaitPost"
                   THEN runPostResponse(calls[i], status, hasLength)
                   ELSE calls[i]]
    /\ UNCHANGED <<execVars, unitVars, defaults, options>>

\* the POST fails for both
PairPostRejected ==
    /\ calls[1].pc = "awaitPost"
    /\ calls' = [i \in DOMAIN calls |->
                   IF calls[i].pc = "awaitPost"
                   THEN runSettle(calls[i], "FetchError")
                   ELSE calls[i]]
    /\ UNCHANGED <<execVars, unitVars, defaults, options>>

\* the same status response reaches each call that waits for one
PairStatusResponse(rt, html) ==
    /\ calls[1].pc = "awaitStatus"
    /\ calls' = [i \in DOMAIN calls |->
                   IF calls[i].pc = "awaitStatus"
                   THEN runStatusResponse(calls[i], rt, html)
                   ELSE calls[i]]
    /\ UNCHANGED <<execVars, unitVars, defaults, options>>

\* the status fetch fails for both
PairStatusRejected ==
    /\ calls[1].pc = "awaitStatus"
    /\ calls' = [i \in DOMAIN calls |->
                   IF calls[i].pc = "awaitStatus"
                   THEN runSettle(calls[i], "FetchError")
                   ELSE calls[i]]
    /\ UNCHANGED <<execVars, unitVars, defaults, options>>

\* the timers fire
PairSleepDone ==
    /\ calls[1].pc = "sleeping"
    /\ calls' = [i \in DOMAIN calls |->
                   IF calls[i].pc = "sleeping"
                   THEN runRetry(calls[i])
                   ELSE calls[i]]
    /\ UNCHANGED <<execVars, unitVars, defaults, options>>

PairNext ==
    \/ PairCall
    \/ \E status \in Statuses, hasLength \in BOOLEAN :
          PairPostResponse(status, hasLength)
    \/ PairPostRejected
    \/ \E rt \in ResponseTypes, html \in ExampleReports :
          PairStatusResponse(rt, html)
    \/ PairStatusRejected
    \/ PairSleepDone

PairSpec == PairInit /\ [][PairNext]_vars

-----------------------------------------------------------------------------
(* C16 *)

\* what the service and the clock see of an issued request or pause
Visible(e) ==
    [ev |-> e.ev, ms |-> e.ms, url |-> e.url, userAgent |-> e.opts.userAgent,
     budget |-> e.opts.numRetries]

SameButVerbose(a, b) ==
    /\ DOMAIN a \ {"verbose"} = DOMAIN b \ {"verbose"}
    /\ \A k \in DOMAIN a \ {"verbose"} : a[k] = b[k]

\* C16: two calls whose options differ only in verbose and that receive the
\* same answers issue the same requests and pauses, in the same order and of
\* the same durations, stand at the same point, and end in the same outcome.
C16_VerboseOnlyObserved ==
    SameButVerbose(options[1], options[2]) =>
        /\ calls[1].pc = calls[2].pc
        /\ calls[1].outcome = calls[2].outcome
        /\ calls[1].depth = calls[2].depth
        /\ Len(calls[1].trace) = Len(calls[2].trace)
        /\ \A k \in DOMAIN calls[1].trace :
              Visible(calls[1].trace[k]) = Visible(calls[2].trace[k])

IsSleep(e) == e.ev = "SLEEP"

\* both calls have paused on the status report's advice, retried and got a
\* response; only the verbose one has written to the console
C16_Witness ==
    /\ calls # <<>>
    /\ ~calls[1].opts.verbose
    /\ calls[2].opts.verbose
    /\ calls[1].outcome = "response"
    /\ calls[2].outcome = "response"
    /\ \E k \in DOMAIN calls[2].trace :
          /\ k > 1
          /\ IsSleep(calls[2].trace[k])
          /\ calls[2].trace[k - 1].ev = "GET"
    /\ calls[1].console = <<>>
    /\ Len(calls[2].console) >= 5

=============================================================================
